---- MODULE Spec2Model ----
(***************************************************************************)
(* The StarDict writer of pyglossary (plugins/stardict/writer.py): one     *)
(* write session of class Writer, driven as a generator.  The session is   *)
(* started (write() runs up to its first yield), is sent entries one at a  *)
(* time, and is finished by sending the terminating marker None.           *)
(*                                                                         *)
(* Byte strings are sequences of byte values, texts are sequences of code  *)
(* points.  Offsets are counted on a reduced scale: UInt32Max and          *)
(* UInt64Max stand for 0xFFFFFFFF and 0xFFFFFFFFFFFFFFFF, so that both     *)
(* overflow boundaries are met by a few small blocks.  The session writes  *)
(* to a base path under which no output file exists yet.                   *)
(*                                                                         *)
(* SpecSqlite is the same session with the index and synonym lists kept in *)
(* database files, SpecRes the same session in an output directory that    *)
(* may hold a resource directory already, SpecOpen a session from          *)
(* Writer.open to the first yield of write.  SpecSq is one instance of     *)
(* SqEntryList                                                             *)
(* (sq_entry_list.py), the disk-backed entry list, driven by calls of its  *)
(* methods in any order; its variables carry the prefix sq_.               *)
(***************************************************************************)
EXTENDS Integers, Sequences, FiniteSets, TLC

\* ------------------------------------------------------------------ bounds

\* The longest entry stream a session is sent.
MaxEntries == 3

\* The most rows the table of a disk-backed list is given.
MaxRows == 3

\* The model's stand-in for 0xFFFFFFFF, the largest 4-byte offset.
UInt32Max == 6

\* The model's stand-in for 0xFFFFFFFFFFFFFFFF, the largest 8-byte offset.
UInt64Max == 8

\* ------------------------------------------------------------ byte strings

b_a == <<97>>

b_ab == <<97, 98>>

b_b == <<98>>

Min(x, y) == IF x <= y THEN x ELSE y

\* a < b in byte-lexicographic order (Python's order on bytes).
BytesLess(a, b) ==
  \E i \in 1..(Min(Len(a), Len(b)) + 1) :
     /\ \A j \in 1..(i - 1) : a[j] = b[j]
     /\ \/ i > Len(a) /\ i <= Len(b)
        \/ i <= Len(a) /\ i <= Len(b) /\ a[i] < b[i]

BytesLeq(a, b) == a = b \/ BytesLess(a, b)

\* str.encode("utf-8") of one code point below U+0800.
utf8Char(cp) ==
  IF cp < 128 THEN <<cp>> ELSE <<192 + (cp \div 64), 128 + (cp % 64)>>

RECURSIVE utf8(_)
utf8(text) ==
  IF text = <<>> THEN <<>> ELSE utf8Char(Head(text)) \o utf8(Tail(text))

RECURSIVE SumSeq(_)
SumSeq(s) == IF s = <<>> THEN 0 ELSE Head(s) + SumSeq(Tail(s))

\* --------------------------------------------------------------- entries

\* The word-form lists (entry.lb_word) an entry of the stream may carry.
WordLists == { <<b_a>>, <<b_b, b_a>>, <<b_ab, b_b>> }

\* The definitions (entry.defi) with the format detectDefiFormat finds.
Defis ==
  { [text |-> <<>>, fmt |-> "m"],
    [text |-> <<233>>, fmt |-> "h"],
    [text |-> <<97, 233>>, fmt |-> "m"] }

TextEntries ==
  { [isData |-> FALSE, words |-> w, defi |-> d.text, fmt |-> d.fmt] :
      w \in WordLists, d \in Defis }

DataEntries ==
  { [isData |-> TRUE, words |-> <<<<105>>>>, defi |-> <<>>, fmt |-> "b"] }

Entries == TextEntries \cup DataEntries

\* The value None of the option sametypesequence.
NoneTag == "None"

\* The thresholds of Writer.open, in hundredths, and the size of the sample
\* it asks for.
PlainShare == 97

HtmlShare == 50

SampleSize == 100

\* collectDefiFormat returned nothing.
NoStat == [m |-> -1, h |-> -1]

\* The shares of plain-text and of html definitions in the sample, in
\* hundredths.
Shares == {0, 3, 49, 50, 51, 97, 98, 100}

Stats ==
  { NoStat } \cup { st \in [m : Shares, h : Shares] : st.m + st.h <= 100 }

\* ----------------------------------------------------------------- state

VARIABLES
  large_file,        \* Writer._large_file
  dictzip,           \* Writer._dictzip
  sametypesequence,  \* Writer._sametypesequence
  merge_syns,        \* Writer._merge_syns
  sqlite,            \* Writer._sqlite
  pc,                \* "constructed", "opened", "waiting" (at the yield),
                     \* "done", "failed"
  proc,              \* the write procedure write() delegates to
  error,             \* the message of the exception that ended the session
  dictMark,
  entryIndex,
  wordCount,
  dictFile,          \* <base>.dict
  idxFile,           \* <base>.idx
  synFile,           \* <base>.syn
  ifoFile,           \* <base>.ifo
  idxBlockList,
  altIndexList,
  resDir,            \* the resource directory and the files in it
  dictzipRuns,       \* the files runDictzip was invoked on, in order
  ops,               \* the steps taken after the stream ended, in order
  accepted,          \* the entries received so far, in arrival order
  glos,              \* what collectDefiFormat finds, and the sample asked of it
  sq_state,          \* "none", "live" (constructed), "released" (__del__ ran)
  sq_persist,        \* SqEntryList._persist
  sq_create,         \* SqEntryList._create
  sq_con,            \* _con and _cur are not None
  sq_sqliteSortKey,  \* SqEntryList._sqliteSortKey, <<>> for None
  sq_columnNames,    \* SqEntryList._columnNames, the names "," joins
  sq_orderBy,        \* SqEntryList._orderBy, the terms "," joins
  sq_sorted,         \* SqEntryList._sorted
  sq_reverse,        \* SqEntryList._reverse
  sq_len,            \* SqEntryList._len
  sq_file,           \* the backing file is on disk
  sq_table,          \* the backing file has the table "data"
  sq_rows,           \* the rows of "data", in rowid order
  sq_master,         \* the object named "sortkey" of sqlite_master
  sq_log,            \* the messages given to log.error
  sq_last,           \* the method called last
  sq_error,          \* the exception it raised, "" for none
  sq_out,            \* the entries it yielded, if it was an iteration
  sq_appended,       \* the entries appended since creation or deleteAll
  sq_sortCalled      \* sort has been called on this instance

sqVars ==
  << sq_state, sq_persist, sq_create, sq_con, sq_sqliteSortKey,
     sq_columnNames, sq_orderBy, sq_sorted, sq_reverse, sq_len, sq_file,
     sq_table, sq_rows, sq_master, sq_log, sq_last, sq_error, sq_out,
     sq_appended, sq_sortCalled >>

writerVars ==
  << large_file, dictzip, sametypesequence, merge_syns, sqlite, pc, proc,
     error, dictMark, entryIndex, wordCount, dictFile, idxFile, synFile,
     ifoFile, idxBlockList, altIndexList, resDir, dictzipRuns, ops,
     accepted, glos >>

vars == << writerVars, sqVars >>

config == << large_file, dictzip, sametypesequence, merge_syns, sqlite >>

\* No object named "sortkey" in sqlite_master.
NoObject == [type |-> "none", sql |-> <<>>]

\* No SqEntryList has been constructed.
sqNoInstance ==
  /\ sq_state = "none"
  /\ sq_persist = FALSE
  /\ sq_create = TRUE
  /\ sq_con = FALSE
  /\ sq_sqliteSortKey = <<>>
  /\ sq_columnNames = <<>>
  /\ sq_orderBy = <<"rowid">>
  /\ sq_sorted = FALSE
  /\ sq_reverse = FALSE
  /\ sq_len = 0
  /\ sq_file = FALSE
  /\ sq_table = FALSE
  /\ sq_rows = <<>>
  /\ sq_master = NoObject
  /\ sq_log = <<>>
  /\ sq_last = ""
  /\ sq_error = ""
  /\ sq_out = <<>>
  /\ sq_appended = <<>>
  /\ sq_sortCalled = FALSE

NoFile == [exists |-> FALSE, closed |-> TRUE, data |-> <<>>]

NewFile == [exists |-> TRUE, closed |-> FALSE, data |-> <<>>]

NoIfo ==
  [exists |-> FALSE, keys |-> <<>>, wordcount |-> 0, idxfilesize |-> 0,
   idxoffsetbits |-> 0, sametypesequence |-> "", synwordcount |-> 0]

OverflowMessage == "dictMark is too big, set option large_file=true"

NoSuchFileMessage == "No such file or directory: .idx"

\* A Writer after open(), with the options it was given.
InitWriter ==
  /\ large_file \in BOOLEAN
  /\ dictzip \in BOOLEAN
  /\ sametypesequence \in {"", "m", "h"}
  /\ merge_syns \in BOOLEAN
  /\ pc = "opened"
  /\ proc = ""
  /\ error = ""
  /\ dictMark = 0
  /\ entryIndex = -1
  /\ wordCount = 0
  /\ dictFile = NoFile
  /\ idxFile = NoFile
  /\ synFile = NoFile
  /\ ifoFile = NoIfo
  /\ idxBlockList = <<>>
  /\ altIndexList = <<>>
  /\ dictzipRuns = <<>>
  /\ ops = <<>>
  /\ accepted = <<>>
  /\ glos = [stat |-> NoStat, sampled |-> 0]

\* There is no resource directory.
NoDir == [exists |-> FALSE, files |-> {}]

\* A session with the lists held in memory (sqlite is off by default), in
\* an output directory that has no resource directory yet.
Init ==
  /\ InitWriter
  /\ resDir = NoDir
  /\ sqlite = FALSE
  /\ sqNoInstance

\* ------------------------------------------------------- pure functions

\* text_utils.uint32ToBytes / uint64ToBytes: the fixed-width encoding of n.
uint32ToBytes(n) == [width |-> 4, value |-> n]

uint64ToBytes(n) == [width |-> 8, value |-> n]

\* Writer.dictMarkToBytesFunc: the offset encoder and the largest offset.
dictMarkToBytesFunc(lf) ==
  IF lf THEN [width |-> 8, max |-> UInt64Max]
  ELSE [width |-> 4, max |-> UInt32Max]

dictMarkToBytes(n) ==
  IF dictMarkToBytesFunc(large_file).width = 8
  THEN uint64ToBytes(n) ELSE uint32ToBytes(n)

dictMarkMax == dictMarkToBytesFunc(large_file).max

\* Writer.fixDefi with stardict_client and audio_goldendict off (their
\* defaults): the definition encoded as UTF-8.
fixDefi(defi, defiFormat) == utf8(defi)

\* defiFormat.encode("ascii")
asciiTag(defiFormat) ==
  CASE defiFormat = "m" -> <<109>>
    [] defiFormat = "h" -> <<104>>
    [] defiFormat = "x" -> <<120>>
    [] OTHER -> <<>>

\* The dict block of a uniform-format procedure.
compactBlock(e, defiFormat) == fixDefi(e.defi, defiFormat)

\* The dict block of a general procedure: tag, definition, NUL.
generalBlock(e) == asciiTag(e.fmt) \o fixDefi(e.defi, e.fmt) \o <<0>>

\* The check with ">=" for ">": an offset equal to the maximum fails.
checkDictMark_atMax(mark, max) ==
  IF mark >= max
  THEN [pc |-> "failed", error |-> OverflowMessage]
  ELSE [pc |-> "waiting", error |-> ""]

\* The check left out: the loop goes on whatever dictMark is.
checkDictMark_never(mark, max) == [pc |-> "waiting", error |-> ""]

\* The check reporting the error without raising it: the loop goes on.
checkDictMark_logged(mark, max) ==
  IF mark > max
  THEN [pc |-> "waiting", error |-> OverflowMessage]
  ELSE [pc |-> "waiting", error |-> ""]

\* The check that follows "dictMark += len(b_dictBlock)".
checkDictMark(mark, max) ==
  IF mark > max
  THEN [pc |-> "failed", error |-> OverflowMessage]
  ELSE [pc |-> "waiting", error |-> ""]

\* One record of the .idx file: word, NUL, offset, length.
idxRecord(b_word, offsetBytes, lengthBytes) ==
  [word |-> b_word, offset |-> offsetBytes, length |-> lengthBytes]

\* One record of the .syn file: word, NUL, index of the owning entry.
synRecord(b_alt, index) == [word |-> b_alt, index |-> uint32ToBytes(index)]

\* The (b_alt, entryIndex) pairs of an entry's alternate word-forms.
altItems(b_words, index) ==
  [i \in 1..(Len(b_words) - 1) |-> <<b_words[i + 1], index>>]

\* The (b_word, blockData) pairs of an entry, one per word-form.
idxItems(b_words, blockData) ==
  [i \in 1..Len(b_words) |-> <<b_words[i], blockData>>]

\* os.path.getsize of an .idx file holding these records.
idxFileSize(records) ==
  SumSeq([i \in 1..Len(records) |->
            Len(records[i].word) + 1 + records[i].offset.width
              + records[i].length.width])

\* os.path.getsize of the .idx file: all its records once it is closed;
\* the records written to a file still open are in its buffer, not on disk.
getsize(f) == IF f.closed THEN idxFileSize(f.data) ELSE 0

\* The list's sort: ascending by key, lexicographic on bytes, equal keys
\* kept in the order they were appended.
RECURSIVE insertByKey(_, _)
insertByKey(item, sorted) ==
  IF sorted = <<>> THEN <<item>>
  ELSE IF BytesLess(item[1], Head(sorted)[1])
       THEN <<item>> \o sorted
       ELSE <<Head(sorted)>> \o insertByKey(item, Tail(sorted))

RECURSIVE sortList(_)
sortList(l) ==
  IF l = <<>> THEN <<>>
  ELSE insertByKey(l[Len(l)], sortList(SubSeq(l, 1, Len(l) - 1)))

\* l without its i-th item.
removeAt(l, i) == SubSeq(l, 1, i - 1) \o SubSeq(l, i + 1, Len(l))

\* The orders in which rows come out of "ORDER BY key": ascending by key,
\* lexicographic on bytes; which of two rows of equal key comes first is
\* left to the engine.
RECURSIVE tieOrders(_)
tieOrders(l) ==
  IF l = <<>> THEN { <<>> }
  ELSE LET least == {i \in DOMAIN l :
                       \A j \in DOMAIN l : BytesLeq(l[i][1], l[j][1])}
       IN UNION { { <<l[i]>> \o t : t \in tieOrders(removeAt(l, i)) } :
                  i \in least }

reverseSeq(l) == [i \in 1..Len(l) |-> l[Len(l) + 1 - i]]

\* Writer.newIdxList / newSynList and the sort of the list they return: the
\* list in memory sorts by key and keeps items of equal key in the order
\* they were appended; the list in a database file comes back in an order
\* of ascending key.
sortedOrders(list) ==
  IF sqlite THEN tieOrders(list) ELSE { sortList(list) }

\* writeSynFile without its early return: an empty list is written too.
writeSynFile_noGuard(list, file, sorted) ==
  [file |-> [exists |-> TRUE, closed |-> TRUE,
             data |-> [i \in 1..Len(sorted) |->
                         [word |-> sorted[i][1],
                          index |-> uint32ToBytes(sorted[i][2])]]],
   list |-> sorted,
   ops |-> <<"sort_syn", "write_syn">>]

\* writeSynFile without the call of sort: the list is written as appended.
writeSynFile_asAppended(list, file, sorted) ==
  IF list = <<>>
  THEN [file |-> file, list |-> list, ops |-> <<>>]
  ELSE [file |-> [exists |-> TRUE, closed |-> TRUE,
                  data |-> [i \in 1..Len(list) |->
                              [word |-> list[i][1],
                               index |-> uint32ToBytes(list[i][2])]]],
        list |-> list,
        ops |-> <<"write_syn">>]

\* Writer.writeSynFile: nothing for an empty list; else the list is sorted,
\* which leaves it in the order sorted, and written in that order.
writeSynFile(list, file, sorted) ==
  IF list = <<>>
  THEN [file |-> file, list |-> list, ops |-> <<>>]
  ELSE [file |-> [exists |-> TRUE, closed |-> TRUE,
                  data |-> [i \in 1..Len(sorted) |->
                              synRecord(sorted[i][1], sorted[i][2])]],
        list |-> sorted,
        ops |-> <<"sort_syn", "write_syn">>]

\* writeIdxFile without the call of sort: the list is written as appended.
writeIdxFile_unsorted(list, file, sorted) ==
  IF list = <<>>
  THEN [file |-> file, list |-> list, count |-> 0, ops |-> <<>>]
  ELSE [file |-> [exists |-> TRUE, closed |-> TRUE,
                  data |-> [i \in 1..Len(list) |->
                              [word |-> list[i][1], offset |-> list[i][2].offset,
                               length |-> list[i][2].length]]],
        list |-> list,
        count |-> Len(list),
        ops |-> <<"write_idx">>]

\* writeIdxFile returning the number of distinct words of the list.
writeIdxFile_countDistinct(list, file, sorted) ==
  IF list = <<>>
  THEN [file |-> file, list |-> list, count |-> 0, ops |-> <<>>]
  ELSE [file |-> [exists |-> TRUE, closed |-> TRUE,
                  data |-> [i \in 1..Len(sorted) |->
                              idxRecord(sorted[i][1], sorted[i][2].offset,
                                        sorted[i][2].length)]],
        list |-> sorted,
        count |-> Cardinality({sorted[i][1] : i \in DOMAIN sorted}),
        ops |-> <<"sort_idx", "write_idx">>]

\* Writer.writeIdxFile: nothing (and 0) for an empty list; else the list is
\* sorted, which leaves it in the order sorted, written in that order, and
\* the number of records is returned.
writeIdxFile(list, file, sorted) ==
  IF list = <<>>
  THEN [file |-> file, list |-> list, count |-> 0, ops |-> <<>>]
  ELSE [file |-> [exists |-> TRUE, closed |-> TRUE,
                  data |-> [i \in 1..Len(sorted) |->
                              idxRecord(sorted[i][1], sorted[i][2].offset,
                                        sorted[i][2].length)]],
        list |-> sorted,
        count |-> Len(sorted),
        ops |-> <<"sort_idx", "write_idx">>]

\* writeIfoFile counting the distinct words of the index, not its records.
writeIfoFile_distinctWords(wc, synWordCount, defiFormat, idx) ==
  IF ~idx.exists
  THEN [ok |-> FALSE, file |-> NoIfo]
  ELSE [ok |-> TRUE,
        file |->
          [exists |-> TRUE,
           keys |-> <<"version", "bookname", "wordcount", "idxfilesize">>
                    \o (IF large_file THEN <<"idxoffsetbits">> ELSE <<>>)
                    \o (IF defiFormat # "" THEN <<"sametypesequence">> ELSE <<>>)
                    \o (IF synWordCount > 0 THEN <<"synwordcount">> ELSE <<>>)
                    \o <<"description">>,
           wordcount |-> Cardinality({idx.data[k].word : k \in DOMAIN idx.data}),
           idxfilesize |-> getsize(idx),
           idxoffsetbits |-> IF large_file THEN 64 ELSE 0,
           sametypesequence |-> defiFormat,
           synwordcount |-> IF synWordCount > 0 THEN synWordCount ELSE 0]]

\* writeIfoFile with "synWordCount >= 0" for "synWordCount > 0": the header
\* carries synwordcount=0 when there is no synonym.
writeIfoFile_synAlways(wc, synWordCount, defiFormat, idx) ==
  IF ~idx.exists
  THEN [ok |-> FALSE, file |-> NoIfo]
  ELSE [ok |-> TRUE,
        file |->
          [exists |-> TRUE,
           keys |-> <<"version", "bookname", "wordcount", "idxfilesize">>
                    \o (IF large_file THEN <<"idxoffsetbits">> ELSE <<>>)
                    \o (IF defiFormat # "" THEN <<"sametypesequence">> ELSE <<>>)
                    \o <<"synwordcount">>
                    \o <<"description">>,
           wordcount |-> wc,
           idxfilesize |-> getsize(idx),
           idxoffsetbits |-> IF large_file THEN 64 ELSE 0,
           sametypesequence |-> defiFormat,
           synwordcount |-> synWordCount]]

\* Writer.writeIfoFile: getsize of the .idx file raises when there is no
\* such file; else the header is assembled and written.
writeIfoFile(wc, synWordCount, defiFormat, idx) ==
  IF ~idx.exists
  THEN [ok |-> FALSE, file |-> NoIfo]
  ELSE [ok |-> TRUE,
        file |->
          [exists |-> TRUE,
           keys |-> <<"version", "bookname", "wordcount", "idxfilesize">>
                    \o (IF large_file THEN <<"idxoffsetbits">> ELSE <<>>)
                    \o (IF defiFormat # "" THEN <<"sametypesequence">> ELSE <<>>)
                    \o (IF synWordCount > 0 THEN <<"synwordcount">> ELSE <<>>)
                    \o <<"description">>,
           wordcount |-> wc,
           idxfilesize |-> getsize(idx),
           idxoffsetbits |-> IF large_file THEN 64 ELSE 0,
           sametypesequence |-> defiFormat,
           synwordcount |-> IF synWordCount > 0 THEN synWordCount ELSE 0]]

\* The end of Writer.write without the test of _dictzip: the compressor is
\* run whether or not compression is configured.
writeTail_noFlag(dir, synExists) ==
  [resDir |-> IF dir.files = {} THEN [exists |-> FALSE, files |-> {}] ELSE dir,
   runs |-> <<"dict">> \o (IF ~merge_syns /\ synExists
                           THEN <<"syn">> ELSE <<>>),
   ops |-> (IF dir.files = {} THEN <<"rmdir_res">> ELSE <<>>)
           \o <<"dictzip_dict">> \o (IF ~merge_syns /\ synExists
                                     THEN <<"dictzip_syn">> ELSE <<>>)]

\* The end of Writer.write without the removal of the resource directory.
writeTail_keepDir(dir, synExists) ==
  [resDir |-> dir,
   runs |-> IF dictzip
            THEN <<"dict">> \o (IF ~merge_syns /\ synExists
                               THEN <<"syn">> ELSE <<>>)
            ELSE <<>>,
   ops |-> IF dictzip
           THEN <<"dictzip_dict">> \o (IF ~merge_syns /\ synExists
                                      THEN <<"dictzip_syn">> ELSE <<>>)
           ELSE <<>>]

\* The end of Writer.write: an empty resource directory is removed, then
\* the compressor is run on .dict and, when not merged, on an existing .syn.
writeTail(dir, synExists) ==
  [resDir |-> IF dir.files = {} THEN [exists |-> FALSE, files |-> {}] ELSE dir,
   runs |-> IF dictzip
            THEN <<"dict">> \o (IF ~merge_syns /\ synExists
                               THEN <<"syn">> ELSE <<>>)
            ELSE <<>>,
   ops |-> (IF dir.files = {} THEN <<"rmdir_res">> ELSE <<>>)
           \o (IF dictzip
               THEN <<"dictzip_dict">> \o (IF ~merge_syns /\ synExists
                                          THEN <<"dictzip_syn">> ELSE <<>>)
               ELSE <<>>)]

\* The selection with its two outer branches exchanged.
selectProcedure_swapped(merge, sts) ==
  IF ~merge
  THEN IF sts \notin {"", NoneTag}
       THEN "writeCompactMergeSyns" ELSE "writeGeneralMergeSyns"
  ELSE IF sts \notin {"", NoneTag} THEN "writeCompact" ELSE "writeGeneral"

\* The procedure Writer.write delegates to: the tag counts when it is
\* neither empty nor None.
selectProcedure(merge, sts) ==
  IF merge
  THEN IF sts \notin {"", NoneTag}
       THEN "writeCompactMergeSyns" ELSE "writeGeneralMergeSyns"
  ELSE IF sts \notin {"", NoneTag} THEN "writeCompact" ELSE "writeGeneral"

\* The tag Writer.open settles on, with ">=" for ">" in the test of the
\* plain-text share.
openTag_atThreshold(option, stat) ==
  IF option \notin {"", NoneTag} THEN option
  ELSE IF option = NoneTag THEN NoneTag
  ELSE IF stat = NoStat THEN ""
  ELSE IF stat.m >= PlainShare THEN "m"
  ELSE IF stat.h > HtmlShare THEN "h"
  ELSE ""

\* The tag Writer.open settles on: a tag given is kept, None is kept, and
\* for the empty tag the statistics of the sample decide.
openTag(option, stat) ==
  IF option \notin {"", NoneTag} THEN option
  ELSE IF option = NoneTag THEN NoneTag
  ELSE IF stat = NoStat THEN ""
  ELSE IF stat.m > PlainShare THEN "m"
  ELSE IF stat.h > HtmlShare THEN "h"
  ELSE ""

\* ---------------------------------------------------------------- actions

\* entry.save(self._resDir): the resource becomes a file of the directory.
saveData(e, dir) == [dir EXCEPT !.files = @ \cup {e.words[1]}]

\* Writer.open: the tag is settled; the glossary is asked for the formats of
\* a sample only when the tag given is empty.
open ==
  /\ pc = "constructed"
  /\ pc' = "opened"
  /\ sametypesequence' = openTag(sametypesequence, glos.stat)
  /\ glos' = [glos EXCEPT !.sampled = IF sametypesequence = ""
                                      THEN SampleSize ELSE 0]
  /\ UNCHANGED << large_file, dictzip, merge_syns, sqlite, sqVars, proc,
                  error, dictMark, entryIndex, wordCount, dictFile, idxFile,
                  synFile, ifoFile, idxBlockList, altIndexList, resDir,
                  dictzipRuns, ops, accepted >>

\* Writer.write up to the first yield of the procedure it delegates to: the
\* resource directory is made, the procedure is chosen, its files are opened.
write_begin ==
  /\ pc = "opened"
  /\ pc' = "waiting"
  /\ proc' = selectProcedure(merge_syns, sametypesequence)
  /\ resDir' = [resDir EXCEPT !.exists = TRUE]
  /\ dictFile' = NewFile
  /\ idxFile' = IF merge_syns THEN idxFile ELSE NewFile
  /\ idxBlockList' = <<>>
  /\ altIndexList' = <<>>
  /\ dictMark' = 0
  /\ entryIndex' = -1
  /\ wordCount' = 0
  /\ UNCHANGED << config, sqVars, glos, error, synFile, ifoFile, dictzipRuns,
                  ops, accepted >>

\* receiveData with "entryIndex += 1" ahead of the isData test: a resource
\* entry takes an index.
receiveData_indexed(e) ==
  /\ resDir' = [resDir EXCEPT !.files = @ \cup {e.words[1]}]
  /\ entryIndex' = entryIndex + 1
  /\ UNCHANGED << config, sqVars, glos, pc, proc, error, dictMark, wordCount,
                  dictFile, idxFile, synFile, ifoFile, idxBlockList,
                  altIndexList, dictzipRuns, ops >>

\* receiveData with "wordCount += 1" ahead of the isData test: a resource
\* entry is counted as a word.
receiveData_counted(e) ==
  /\ resDir' = [resDir EXCEPT !.files = @ \cup {e.words[1]}]
  /\ wordCount' = wordCount + 1
  /\ UNCHANGED << config, sqVars, glos, pc, proc, error, dictMark, entryIndex,
                  dictFile, idxFile, synFile, ifoFile, idxBlockList,
                  altIndexList, dictzipRuns, ops >>

\* What receiving a resource entry does, in all four procedures.
receiveData(e) ==
  /\ resDir' = saveData(e, resDir)
  /\ UNCHANGED << config, sqVars, glos, pc, proc, error, dictMark,
                  entryIndex, wordCount, dictFile, idxFile, synFile, ifoFile,
                  idxBlockList, altIndexList, dictzipRuns, ops >>

\* receiveSplit writing the new block at the head of the .dict file.
receiveSplit_prepend(e, b_dictBlock) ==
  LET b_words == e.words
      mark == dictMark + Len(b_dictBlock)
      after == checkDictMark(mark, dictMarkMax)
  IN /\ entryIndex' = entryIndex + 1
     /\ altIndexList' = altIndexList \o altItems(b_words, entryIndex + 1)
     /\ dictFile' = [dictFile EXCEPT !.data = b_dictBlock \o @]
     /\ idxFile' = [idxFile EXCEPT !.data =
                      Append(@, idxRecord(b_words[1], dictMarkToBytes(dictMark),
                                          uint32ToBytes(Len(b_dictBlock))))]
     /\ dictMark' = mark
     /\ wordCount' = wordCount + 1
     /\ pc' = after.pc
     /\ error' = after.error
     /\ UNCHANGED << config, sqVars, glos, proc, synFile, ifoFile,
                     idxBlockList, resDir, dictzipRuns, ops >>

\* One turn of the loop of a split-synonym procedure for a textual entry
\* whose dict block is b_dictBlock.
receiveSplit(e, b_dictBlock) ==
  LET b_words == e.words
      mark == dictMark + Len(b_dictBlock)
      after == checkDictMark(mark, dictMarkMax)
  IN /\ entryIndex' = entryIndex + 1
     /\ altIndexList' = altIndexList \o altItems(b_words, entryIndex + 1)
     /\ dictFile' = [dictFile EXCEPT !.data = @ \o b_dictBlock]
     /\ idxFile' = [idxFile EXCEPT !.data =
                      Append(@, idxRecord(b_words[1], dictMarkToBytes(dictMark),
                                          uint32ToBytes(Len(b_dictBlock))))]
     /\ dictMark' = mark
     /\ wordCount' = wordCount + 1
     /\ pc' = after.pc
     /\ error' = after.error
     /\ UNCHANGED << config, sqVars, glos, proc, synFile, ifoFile,
                     idxBlockList, resDir, dictzipRuns, ops >>

\* receiveMerged adding the length of the definition's text, in characters,
\* to dictMark instead of the length of the block in bytes.
receiveMerged_charCount(e, b_dictBlock) ==
  LET mark == dictMark + Len(e.defi)
      after == checkDictMark(mark, dictMarkMax)
      blockData == [offset |-> dictMarkToBytes(dictMark),
                    length |-> uint32ToBytes(Len(b_dictBlock))]
  IN /\ entryIndex' = entryIndex + 1
     /\ dictFile' = [dictFile EXCEPT !.data = @ \o b_dictBlock]
     /\ idxBlockList' = idxBlockList \o idxItems(e.words, blockData)
     /\ dictMark' = mark
     /\ pc' = after.pc
     /\ error' = after.error
     /\ UNCHANGED << config, sqVars, glos, proc, wordCount, idxFile, synFile,
                     ifoFile, altIndexList, resDir, dictzipRuns, ops >>

\* One turn of the loop of a merged-synonym procedure for a textual entry
\* whose dict block is b_dictBlock.
receiveMerged(e, b_dictBlock) ==
  LET mark == dictMark + Len(b_dictBlock)
      after == checkDictMark(mark, dictMarkMax)
      blockData == [offset |-> dictMarkToBytes(dictMark),
                    length |-> uint32ToBytes(Len(b_dictBlock))]
  IN /\ entryIndex' = entryIndex + 1
     /\ dictFile' = [dictFile EXCEPT !.data = @ \o b_dictBlock]
     /\ idxBlockList' = idxBlockList \o idxItems(e.words, blockData)
     /\ dictMark' = mark
     /\ pc' = after.pc
     /\ error' = after.error
     /\ UNCHANGED << config, sqVars, glos, proc, wordCount, idxFile, synFile,
                     ifoFile, altIndexList, resDir, dictzipRuns, ops >>

\* finishSplit with the header written ahead of idxFile.close(): the size
\* of the .idx file is read while the file is open.
finishSplit_sizeBeforeClose(defiFormat) ==
  \E sorted \in sortedOrders(altIndexList) :
  LET closedIdx == [idxFile EXCEPT !.closed = TRUE]
      syn == writeSynFile(altIndexList, synFile, sorted)
      ifo == writeIfoFile(wordCount, Len(altIndexList), defiFormat, idxFile)
      tail == writeTail(resDir, syn.file.exists)
  IN /\ dictFile' = [dictFile EXCEPT !.closed = TRUE]
     /\ idxFile' = closedIdx
     /\ synFile' = syn.file
     /\ altIndexList' = syn.list
     /\ IF ifo.ok
        THEN /\ ifoFile' = ifo.file
             /\ resDir' = tail.resDir
             /\ dictzipRuns' = tail.runs
             /\ ops' = <<"close_dict">> \o syn.ops
                       \o <<"write_ifo", "close_idx">> \o tail.ops
             /\ pc' = "done"
             /\ error' = ""
        ELSE /\ ops' = <<"close_dict">> \o syn.ops
             /\ pc' = "failed"
             /\ error' = NoSuchFileMessage
             /\ UNCHANGED << ifoFile, resDir, dictzipRuns >>
     /\ UNCHANGED << config, sqVars, glos, proc, dictMark, entryIndex,
                     wordCount, idxBlockList, accepted >>

\* The end of a split-synonym procedure and of Writer.write after it: both
\* files are closed, the synonyms are written, then the header, then the
\* empty resource directory is removed and the compressor run.
finishSplit(defiFormat) ==
  \E sorted \in sortedOrders(altIndexList) :
  LET closedIdx == [idxFile EXCEPT !.closed = TRUE]
      syn == writeSynFile(altIndexList, synFile, sorted)
      ifo == writeIfoFile(wordCount, Len(altIndexList), defiFormat, closedIdx)
      tail == writeTail(resDir, syn.file.exists)
  IN /\ dictFile' = [dictFile EXCEPT !.closed = TRUE]
     /\ idxFile' = closedIdx
     /\ synFile' = syn.file
     /\ altIndexList' = syn.list
     /\ IF ifo.ok
        THEN /\ ifoFile' = ifo.file
             /\ resDir' = tail.resDir
             /\ dictzipRuns' = tail.runs
             /\ ops' = <<"close_dict", "close_idx">> \o syn.ops
                       \o <<"write_ifo">> \o tail.ops
             /\ pc' = "done"
             /\ error' = ""
        ELSE /\ ops' = <<"close_dict", "close_idx">> \o syn.ops
             /\ pc' = "failed"
             /\ error' = NoSuchFileMessage
             /\ UNCHANGED << ifoFile, resDir, dictzipRuns >>
     /\ UNCHANGED << config, sqVars, glos, proc, dictMark, entryIndex,
                     wordCount, idxBlockList, accepted >>

\* The end of a merged-synonym procedure and of Writer.write after it: the
\* dict file is closed, the index is written, then the header, then the
\* empty resource directory is removed and the compressor run.
finishMerged(defiFormat) ==
  \E sorted \in sortedOrders(idxBlockList) :
  LET idx == writeIdxFile(idxBlockList, idxFile, sorted)
      ifo == writeIfoFile(idx.count, Len(altIndexList), defiFormat, idx.file)
      tail == writeTail(resDir, synFile.exists)
  IN /\ dictFile' = [dictFile EXCEPT !.closed = TRUE]
     /\ idxFile' = idx.file
     /\ idxBlockList' = idx.list
     /\ wordCount' = idx.count
     /\ IF ifo.ok
        THEN /\ ifoFile' = ifo.file
             /\ resDir' = tail.resDir
             /\ dictzipRuns' = tail.runs
             /\ ops' = <<"close_dict">> \o idx.ops \o <<"write_ifo">> \o tail.ops
             /\ pc' = "done"
             /\ error' = ""
        ELSE /\ ops' = <<"close_dict">> \o idx.ops
             /\ pc' = "failed"
             /\ error' = NoSuchFileMessage
             /\ UNCHANGED << ifoFile, resDir, dictzipRuns >>
     /\ UNCHANGED << config, sqVars, glos, proc, dictMark, entryIndex,
                     synFile, altIndexList, accepted >>

\* Writer.writeCompact receives entry e.
writeCompact_entry(e) ==
  /\ pc = "waiting" /\ proc = "writeCompact"
  /\ Len(accepted) < MaxEntries
  /\ accepted' = Append(accepted, e)
  /\ IF e.isData THEN receiveData(e)
     ELSE receiveSplit(e, compactBlock(e, sametypesequence))

\* Writer.writeCompact receives None.
writeCompact_end ==
  /\ pc = "waiting" /\ proc = "writeCompact"
  /\ finishSplit(sametypesequence)

\* Writer.writeGeneral receives entry e.
writeGeneral_entry(e) ==
  /\ pc = "waiting" /\ proc = "writeGeneral"
  /\ Len(accepted) < MaxEntries
  /\ accepted' = Append(accepted, e)
  /\ IF e.isData THEN receiveData(e)
     ELSE receiveSplit(e, generalBlock(e))

\* Writer.writeGeneral receives None.
writeGeneral_end ==
  /\ pc = "waiting" /\ proc = "writeGeneral"
  /\ finishSplit("")

\* Writer.writeCompactMergeSyns receives entry e.
writeCompactMergeSyns_entry(e) ==
  /\ pc = "waiting" /\ proc = "writeCompactMergeSyns"
  /\ Len(accepted) < MaxEntries
  /\ accepted' = Append(accepted, e)
  /\ IF e.isData THEN receiveData(e)
     ELSE receiveMerged(e, compactBlock(e, sametypesequence))

\* Writer.writeCompactMergeSyns receives None.
writeCompactMergeSyns_end ==
  /\ pc = "waiting" /\ proc = "writeCompactMergeSyns"
  /\ finishMerged(sametypesequence)

\* Writer.writeGeneralMergeSyns receives entry e.
writeGeneralMergeSyns_entry(e) ==
  /\ pc = "waiting" /\ proc = "writeGeneralMergeSyns"
  /\ Len(accepted) < MaxEntries
  /\ accepted' = Append(accepted, e)
  /\ IF e.isData THEN receiveData(e)
     ELSE receiveMerged(e, generalBlock(e))

\* Writer.writeGeneralMergeSyns receives None.
writeGeneralMergeSyns_end ==
  /\ pc = "waiting" /\ proc = "writeGeneralMergeSyns"
  /\ finishMerged("")

Next ==
  \/ write_begin
  \/ \E e \in Entries : writeCompact_entry(e)
  \/ writeCompact_end
  \/ \E e \in Entries : writeGeneral_entry(e)
  \/ writeGeneral_end
  \/ \E e \in Entries : writeCompactMergeSyns_entry(e)
  \/ writeCompactMergeSyns_end
  \/ \E e \in Entries : writeGeneralMergeSyns_entry(e)
  \/ writeGeneralMergeSyns_end

Spec == Init /\ [][Next]_vars

\* A session with the lists in database files (option sqlite).
InitSqlite ==
  /\ InitWriter
  /\ resDir = NoDir
  /\ sqlite = TRUE
  /\ sqNoInstance

SpecSqlite == InitSqlite /\ [][Next]_vars

\* The resource directory is the directory "res" beside the output files:
\* it may be there already, empty or with the files of a dictionary
\* written to the same directory before.
PrevResDirs ==
  { NoDir,
    [exists |-> TRUE, files |-> {}],
    [exists |-> TRUE, files |-> { <<111>> }] }

\* A session in an output directory that may hold a resource directory.
InitRes ==
  /\ InitWriter
  /\ resDir \in PrevResDirs
  /\ sqlite = FALSE
  /\ sqNoInstance

SpecRes == InitRes /\ [][Next]_vars

\* A Writer constructed with its options set, not opened yet, and a
\* glossary whose sample has these shares of formats.
InitOpen ==
  /\ large_file \in BOOLEAN
  /\ dictzip \in BOOLEAN
  /\ sametypesequence \in {"", "h", "m", "x", NoneTag}
  /\ merge_syns \in BOOLEAN
  /\ sqlite = FALSE
  /\ pc = "constructed"
  /\ proc = ""
  /\ error = ""
  /\ dictMark = 0
  /\ entryIndex = -1
  /\ wordCount = 0
  /\ dictFile = NoFile
  /\ idxFile = NoFile
  /\ synFile = NoFile
  /\ ifoFile = NoIfo
  /\ idxBlockList = <<>>
  /\ altIndexList = <<>>
  /\ resDir = NoDir
  /\ dictzipRuns = <<>>
  /\ ops = <<>>
  /\ accepted = <<>>
  /\ \E stat \in Stats : glos = [stat |-> stat, sampled |-> 0]
  /\ sqNoInstance

\* The session from open to the first yield of write.
OpenNext ==
  \/ open
  \/ write_begin

SpecOpen == InitOpen /\ [][OpenNext]_vars

\* ------------------------------------------- SqEntryList (sq_entry_list.py)

\* The entries a list is given: l_word holds the word-forms as texts.  The
\* second and the third have the same headword.
SqEntries ==
  { [l_word |-> <<<<233>>>>, defi |-> <<100>>],
    [l_word |-> <<<<97>>, <<99>>>>, defi |-> <<101>>],
    [l_word |-> <<<<97>>>>, defi |-> <<102>>] }

\* The values of namedSortKey: the module headword, which has a sqlite
\* function, and a sort key that has none.
SortKeys ==
  { [name |-> "headword", sqlite |-> TRUE],
    [name |-> "custom", sqlite |-> FALSE] }

\* sort_modules/headword.py, sqlite(sortEncoding="utf-8"): one column, whose
\* value is the headword encoded.
headwordSqlite == << [name |-> "headword", type |-> "TEXT"] >>

headwordSortKey(words) == utf8(words[1])

\* SqEntryList._encode and _decode: the raw form of an entry, pickled.
sqEncode(entry) == [pickle |-> << entry.l_word, entry.defi >>]

sqDecode(data) == [l_word |-> data.pickle[1], defi |-> data.pickle[2]]

\* The row append inserts: the value of the key column, then the pickle.
sqRow(entry) == << headwordSortKey(entry.l_word), sqEncode(entry) >>

\* The statement sort executes, as the text sqlite_master keeps of it.
indexSql(columnNames) ==
  << "CREATE INDEX sortkey ON data", "(" >> \o columnNames \o << ")" >>

\* What a previously built store can hold under the name "sortkey": the
\* index sort made, or a view or a trigger of that name.
MasterObjects ==
  { NoObject,
    [type |-> "index", sql |-> indexSql(<<"headword">>)],
    [type |-> "view", sql |-> <<"CREATE VIEW sortkey AS SELECT 1">>],
    [type |-> "trigger",
     sql |-> <<"CREATE TRIGGER sortkey AFTER INSERT ON data BEGIN SELECT 1; END">>] }

\* The rows a previously built store can hold.
PrevRows ==
  { <<>>,
    << sqRow([l_word |-> <<<<233>>>>, defi |-> <<100>>]),
       sqRow([l_word |-> <<<<97>>>>, defi |-> <<102>>]) >> }

\* str.find: the first position of piece at or after from, 0 for none.
find(sql, piece, from) ==
  LET at == {k \in DOMAIN sql : k >= from /\ sql[k] = piece}
  IN IF at = {} THEN 0 ELSE CHOOSE k \in at : \A m \in at : k <= m

\* SqEntryList.__init__ on a file name that is not empty.
sqInit(create, persist, table, rows, master) ==
  /\ sq_state = "live"
  /\ sq_persist = persist
  /\ sq_create = create
  /\ sq_con = TRUE
  /\ sq_sqliteSortKey = <<>>
  /\ sq_columnNames = <<>>
  /\ sq_orderBy = <<"rowid">>
  /\ sq_sorted = FALSE
  /\ sq_reverse = FALSE
  /\ sq_len = 0
  /\ sq_file = TRUE
  /\ sq_table = table
  /\ sq_rows = rows
  /\ sq_master = master
  /\ sq_log = <<>>
  /\ sq_last = ""
  /\ sq_error = ""
  /\ sq_out = <<>>
  /\ sq_appended = <<>>
  /\ sq_sortCalled = FALSE

\* A list constructed with create=True on a file that did not exist, or
\* with create=False on a store built before; no write session is open.
SqInit ==
  /\ large_file = FALSE
  /\ dictzip = TRUE
  /\ sametypesequence = ""
  /\ merge_syns = FALSE
  /\ sqlite = FALSE
  /\ pc = "opened"
  /\ proc = ""
  /\ error = ""
  /\ dictMark = 0
  /\ entryIndex = -1
  /\ wordCount = 0
  /\ dictFile = NoFile
  /\ idxFile = NoFile
  /\ synFile = NoFile
  /\ ifoFile = NoIfo
  /\ idxBlockList = <<>>
  /\ altIndexList = <<>>
  /\ resDir = [exists |-> FALSE, files |-> {}]
  /\ dictzipRuns = <<>>
  /\ ops = <<>>
  /\ accepted = <<>>
  /\ glos = [stat |-> NoStat, sampled |-> 0]
  /\ \E persist \in BOOLEAN :
       \/ sqInit(TRUE, persist, FALSE, <<>>, NoObject)
       \/ \E rows \in PrevRows, master \in MasterObjects :
            sqInit(FALSE, persist, TRUE, rows, master)

\* SqEntryList._parseExistingIndex: the definition of "sortkey" is looked
\* up; the text between its first "(" and the ")" after it is the order.
parseExistingIndex ==
  LET sql == sq_master.sql
      i == find(sql, "(", 1)
      j == find(sql, ")", i)
      same == [sorted |-> sq_sorted, orderBy |-> sq_orderBy, log |-> sq_log]
      logged == [sorted |-> sq_sorted, orderBy |-> sq_orderBy,
                 log |-> Append(sq_log, "error parsing index")]
  IN IF ~sq_con THEN same
     ELSE IF sq_master = NoObject THEN same
     ELSE IF i = 0 THEN logged
     ELSE IF j = 0 THEN logged
     ELSE [sorted |-> TRUE, orderBy |-> SubSeq(sql, i + 1, j - 1),
           log |-> sq_log]

\* SqEntryList.setSortKey(namedSortKey, "utf-8", {}).
sq_setSortKey(namedSortKey) ==
  /\ sq_state = "live"
  /\ sq_last' = "setSortKey"
  /\ sq_out' = <<>>
  /\ IF ~sq_con
     THEN /\ sq_error' = "RuntimeError"
          /\ UNCHANGED << sq_sqliteSortKey, sq_columnNames, sq_sorted,
                          sq_orderBy, sq_log, sq_table >>
     ELSE IF sq_sqliteSortKey # <<>>
     THEN /\ sq_error' = "RuntimeError"
          /\ UNCHANGED << sq_sqliteSortKey, sq_columnNames, sq_sorted,
                          sq_orderBy, sq_log, sq_table >>
     ELSE IF ~namedSortKey.sqlite
     THEN /\ sq_error' = "NotImplementedError"
          /\ UNCHANGED << sq_sqliteSortKey, sq_columnNames, sq_sorted,
                          sq_orderBy, sq_log, sq_table >>
     ELSE /\ sq_sqliteSortKey' = headwordSqlite
          /\ sq_columnNames' =
               [c \in DOMAIN headwordSqlite |-> headwordSqlite[c].name]
          /\ IF ~sq_create
             THEN LET parsed == parseExistingIndex
                  IN /\ sq_sorted' = parsed.sorted
                     /\ sq_orderBy' = parsed.orderBy
                     /\ sq_log' = parsed.log
                     /\ sq_error' = ""
                     /\ UNCHANGED sq_table
             ELSE /\ sq_table' = TRUE
                  /\ sq_error' = IF sq_table THEN "OperationalError" ELSE ""
                  /\ UNCHANGED << sq_sorted, sq_orderBy, sq_log >>
  /\ UNCHANGED << writerVars, sq_state, sq_persist, sq_create, sq_con,
                  sq_reverse, sq_len, sq_file, sq_rows, sq_master,
                  sq_appended, sq_sortCalled >>

\* SqEntryList.append(entry).
sq_append(entry) ==
  /\ sq_state = "live"
  /\ Len(sq_rows) < MaxRows
  /\ sq_last' = "append"
  /\ sq_out' = <<>>
  /\ IF ~sq_con
     THEN /\ sq_error' = "AttributeError"
          /\ UNCHANGED << sq_rows, sq_len, sq_appended >>
     ELSE IF sq_sqliteSortKey = <<>>
     THEN /\ sq_error' = "TypeError"
          /\ UNCHANGED << sq_rows, sq_len, sq_appended >>
     ELSE /\ sq_rows' = Append(sq_rows, sqRow(entry))
          /\ sq_len' = sq_len + 1
          /\ sq_appended' = Append(sq_appended, entry)
          /\ sq_error' = ""
  /\ UNCHANGED << writerVars, sq_state, sq_persist, sq_create, sq_con,
                  sq_sqliteSortKey, sq_columnNames, sq_orderBy, sq_sorted,
                  sq_reverse, sq_file, sq_table, sq_master, sq_log,
                  sq_sortCalled >>

\* ",".join(f"{col[0]} DESC" for col in sqliteSortKey)
RECURSIVE descTerms(_)
descTerms(sqliteSortKey) ==
  IF sqliteSortKey = <<>> THEN <<>>
  ELSE << Head(sqliteSortKey).name, "DESC" >> \o descTerms(Tail(sqliteSortKey))

\* sort without its test of _sorted: a sorted list is sorted again.
sq_sort_again(reverse) ==
  /\ sq_state = "live"
  /\ sq_last' = "sort"
  /\ sq_out' = <<>>
  /\ sq_sortCalled' = TRUE
  /\ IF FALSE
     THEN /\ sq_error' = "NotImplementedError"
          /\ UNCHANGED << sq_reverse, sq_sorted, sq_orderBy, sq_master >>
     ELSE IF sq_sqliteSortKey = <<>>
     THEN /\ sq_error' = "RuntimeError"
          /\ UNCHANGED << sq_reverse, sq_sorted, sq_orderBy, sq_master >>
     ELSE /\ sq_reverse' = reverse
          /\ sq_sorted' = TRUE
          /\ sq_orderBy' = IF reverse THEN descTerms(sq_sqliteSortKey)
                           ELSE sq_columnNames
          /\ IF ~sq_con
             THEN /\ sq_error' = "AttributeError"
                  /\ UNCHANGED sq_master
             ELSE IF sq_master.type \in {"index", "view"}
             THEN /\ sq_error' = "OperationalError"
                  /\ UNCHANGED sq_master
             ELSE /\ sq_master' = [type |-> "index",
                                   sql |-> indexSql(sq_columnNames)]
                  /\ sq_error' = ""
  /\ UNCHANGED << writerVars, sq_state, sq_persist, sq_create, sq_con,
                  sq_sqliteSortKey, sq_columnNames, sq_len, sq_file,
                  sq_table, sq_rows, sq_log, sq_appended >>

\* SqEntryList.sort(reverse).  The fields are set before the index is made:
\* they stay set when making it raises.  CREATE INDEX raises when an index
\* or a view has the name already; a trigger of that name is no obstacle.
sq_sort(reverse) ==
  /\ sq_state = "live"
  /\ sq_last' = "sort"
  /\ sq_out' = <<>>
  /\ sq_sortCalled' = TRUE
  /\ IF sq_sorted
     THEN /\ sq_error' = "NotImplementedError"
          /\ UNCHANGED << sq_reverse, sq_sorted, sq_orderBy, sq_master >>
     ELSE IF sq_sqliteSortKey = <<>>
     THEN /\ sq_error' = "RuntimeError"
          /\ UNCHANGED << sq_reverse, sq_sorted, sq_orderBy, sq_master >>
     ELSE /\ sq_reverse' = reverse
          /\ sq_sorted' = TRUE
          /\ sq_orderBy' = IF reverse THEN descTerms(sq_sqliteSortKey)
                           ELSE sq_columnNames
          /\ IF ~sq_con
             THEN /\ sq_error' = "AttributeError"
                  /\ UNCHANGED sq_master
             ELSE IF sq_master.type \in {"index", "view"}
             THEN /\ sq_error' = "OperationalError"
                  /\ UNCHANGED sq_master
             ELSE /\ sq_master' = [type |-> "index",
                                   sql |-> indexSql(sq_columnNames)]
                  /\ sq_error' = ""
  /\ UNCHANGED << writerVars, sq_state, sq_persist, sq_create, sq_con,
                  sq_sqliteSortKey, sq_columnNames, sq_len, sq_file,
                  sq_table, sq_rows, sq_log, sq_appended >>

\* The rows "SELECT ... FROM data ORDER BY orderBy" can return.
rowsInOrder(rows, orderBy) ==
  IF orderBy = <<"rowid">> THEN { rows }
  ELSE IF orderBy[Len(orderBy)] = "DESC"
  THEN { reverseSeq(t) : t \in tieOrders(rows) }
  ELSE tieOrders(rows)

\* __iter__ with the order left out of the query: rows come in rowid order.
sq_iter_rowid ==
  /\ sq_state = "live"
  /\ sq_last' = "iter"
  /\ IF ~sq_con
     THEN sq_error' = "Error" /\ sq_out' = <<>>
     ELSE IF ~sq_table
     THEN sq_error' = "OperationalError" /\ sq_out' = <<>>
     ELSE /\ sq_out' = [k \in DOMAIN sq_rows |-> sqDecode(sq_rows[k][2])]
          /\ sq_error' = ""
  /\ UNCHANGED << writerVars, sq_state, sq_persist, sq_create, sq_con,
                  sq_sqliteSortKey, sq_columnNames, sq_orderBy, sq_sorted,
                  sq_reverse, sq_len, sq_file, sq_table, sq_rows, sq_master,
                  sq_log, sq_appended, sq_sortCalled >>

\* SqEntryList.__iter__, run to its end.
sq_iter ==
  /\ sq_state = "live"
  /\ sq_last' = "iter"
  /\ IF ~sq_con
     THEN sq_error' = "Error" /\ sq_out' = <<>>
     ELSE IF ~sq_table
     THEN sq_error' = "OperationalError" /\ sq_out' = <<>>
     ELSE /\ \E rows \in rowsInOrder(sq_rows, sq_orderBy) :
               sq_out' = [k \in DOMAIN rows |-> sqDecode(rows[k][2])]
          /\ sq_error' = ""
  /\ UNCHANGED << writerVars, sq_state, sq_persist, sq_create, sq_con,
                  sq_sqliteSortKey, sq_columnNames, sq_orderBy, sq_sorted,
                  sq_reverse, sq_len, sq_file, sq_table, sq_rows, sq_master,
                  sq_log, sq_appended, sq_sortCalled >>

\* SqEntryList.deleteAll.
sq_deleteAll ==
  /\ sq_state = "live"
  /\ sq_last' = "deleteAll"
  /\ sq_out' = <<>>
  /\ IF ~sq_con
     THEN /\ sq_error' = ""
          /\ UNCHANGED << sq_rows, sq_len, sq_appended >>
     ELSE IF ~sq_table
     THEN /\ sq_error' = "OperationalError"
          /\ UNCHANGED << sq_rows, sq_len, sq_appended >>
     ELSE /\ sq_rows' = <<>>
          /\ sq_len' = 0
          /\ sq_appended' = <<>>
          /\ sq_error' = ""
  /\ UNCHANGED << writerVars, sq_state, sq_persist, sq_create, sq_con,
                  sq_sqliteSortKey, sq_columnNames, sq_orderBy, sq_sorted,
                  sq_reverse, sq_file, sq_table, sq_master, sq_log,
                  sq_sortCalled >>

\* SqEntryList.close: commit, then cursor and connection are closed.
sq_close ==
  /\ sq_state = "live"
  /\ sq_last' = "close"
  /\ sq_out' = <<>>
  /\ sq_error' = ""
  /\ sq_con' = FALSE
  /\ UNCHANGED << writerVars, sq_state, sq_persist, sq_create,
                  sq_sqliteSortKey, sq_columnNames, sq_orderBy, sq_sorted,
                  sq_reverse, sq_len, sq_file, sq_table, sq_rows, sq_master,
                  sq_log, sq_appended, sq_sortCalled >>

\* SqEntryList.clear: close, under another name.
sq_clear ==
  /\ sq_state = "live"
  /\ sq_last' = "clear"
  /\ sq_out' = <<>>
  /\ sq_error' = ""
  /\ sq_con' = FALSE
  /\ UNCHANGED << writerVars, sq_state, sq_persist, sq_create,
                  sq_sqliteSortKey, sq_columnNames, sq_orderBy, sq_sorted,
                  sq_reverse, sq_len, sq_file, sq_table, sq_rows, sq_master,
                  sq_log, sq_appended, sq_sortCalled >>

\* __del__ without the test of _persist: the file is removed in any case.
sq_del_always ==
  /\ sq_state = "live"
  /\ sq_state' = "released"
  /\ sq_last' = "del"
  /\ sq_out' = <<>>
  /\ sq_error' = ""
  /\ sq_con' = FALSE
  /\ sq_file' = FALSE
  /\ sq_table' = FALSE
  /\ sq_rows' = <<>>
  /\ sq_master' = NoObject
  /\ UNCHANGED << writerVars, sq_persist, sq_create, sq_sqliteSortKey,
                  sq_columnNames, sq_orderBy, sq_sorted, sq_reverse, sq_len,
                  sq_log, sq_appended, sq_sortCalled >>

\* SqEntryList.__del__: close, then the file is removed unless _persist.
sq_del ==
  /\ sq_state = "live"
  /\ sq_state' = "released"
  /\ sq_last' = "del"
  /\ sq_out' = <<>>
  /\ sq_error' = ""
  /\ sq_con' = FALSE
  /\ IF ~sq_persist /\ sq_file
     THEN /\ sq_file' = FALSE
          /\ sq_table' = FALSE
          /\ sq_rows' = <<>>
          /\ sq_master' = NoObject
     ELSE UNCHANGED << sq_file, sq_table, sq_rows, sq_master >>
  /\ UNCHANGED << writerVars, sq_persist, sq_create, sq_sqliteSortKey,
                  sq_columnNames, sq_orderBy, sq_sorted, sq_reverse, sq_len,
                  sq_log, sq_appended, sq_sortCalled >>

SqNext ==
  \/ \E k \in SortKeys : sq_setSortKey(k)
  \/ \E e \in SqEntries : sq_append(e)
  \/ \E reverse \in BOOLEAN : sq_sort(reverse)
  \/ sq_iter
  \/ sq_deleteAll
  \/ sq_close
  \/ sq_clear
  \/ sq_del

SpecSq == SqInit /\ [][SqNext]_vars

\* ------------------------------------------------- what the claims read

IsText(e) == ~e.isData

\* The non-resource entries received so far, in arrival order.
texts == SelectSeq(accepted, IsText)

\* The dict block the running procedure makes of entry e.
blockOf(e) ==
  IF sametypesequence # "" THEN compactBlock(e, sametypesequence)
  ELSE generalBlock(e)

\* The number of .dict bytes that precede the block of the i-th text entry.
offsetOf(i) == SumSeq([j \in 1..(i - 1) |-> Len(blockOf(texts[j]))])

\* The bytes of .dict an index record points at.
slice(r) ==
  SubSeq(dictFile.data, r.offset.value + 1, r.offset.value + r.length.value)

\* The (entry, word-form) pairs that are indexed in this session.
indexedForms ==
  UNION { { <<i, j>> : j \in 1..(IF merge_syns THEN Len(texts[i].words) ELSE 1) } :
          i \in 1..Len(texts) }

\* The (entry, word-form) pairs of the alternate word-forms.
altForms ==
  UNION { { <<i, j + 1>> : j \in 1..(Len(texts[i].words) - 1) } :
          i \in 1..Len(texts) }

IsSortedByWord(records) ==
  \A k \in 1..(Len(records) - 1) :
     BytesLeq(records[k].word, records[k + 1].word)

ended == pc \in {"done", "failed"}

\* ------------------------------------------------------------- the claims

\* C1: after a non-resource entry's block length is added to dictMark, the
\* session fails with the error that tells the caller to set
\* large_file=true if and only if the new dictMark is greater than the
\* maximum of the configured width; a dictMark equal to the maximum does
\* not fail, one more than it does.
C1_OverflowIffAboveMax ==
  (pc = "failed" /\ error = OverflowMessage) <=> (dictMark > dictMarkMax)

\* A session has failed on a dictMark one above the maximum.
C1_Witness ==
  /\ error = OverflowMessage
  /\ dictMark = dictMarkMax + 1

\* A session is still waiting with dictMark exactly at the maximum.
C1_AtMaxWaiting ==
  /\ pc = "waiting"
  /\ dictMark = dictMarkMax
  /\ texts # <<>>

\* C2: while the writer has not failed (it waits for the next entry or has
\* finished), dictMark is at most the maximum of the configured width, and
\* every offset encoded into an index record is at most that maximum.
C2_DictMarkWithinWidth ==
  /\ pc \in {"waiting", "done"} => dictMark <= dictMarkMax
  /\ \A k \in DOMAIN idxFile.data :
        idxFile.data[k].offset.value <= dictMarkMax
  /\ \A k \in DOMAIN idxBlockList :
        idxBlockList[k][2].offset.value <= dictMarkMax

\* A session finished with dictMark exactly at the maximum and a record
\* whose offset is not zero.
C2_Witness ==
  /\ pc = "done"
  /\ dictMark = dictMarkMax
  /\ \E k \in DOMAIN idxFile.data : idxFile.data[k].offset.value > 0

\* C3: once the overflow error is raised the session is over: the entry
\* that overflowed is the last one received, no header is written, no list
\* is sorted or flushed, the resource directory is not removed, the
\* compressor is not run, and what was written stays on disk.
C3_OverflowAborts ==
  error = OverflowMessage =>
    /\ pc = "failed"
    /\ texts # <<>>
    /\ ~accepted[Len(accepted)].isData
    /\ offsetOf(Len(texts)) <= dictMarkMax
    /\ ~ifoFile.exists
    /\ ~synFile.exists
    /\ ops = <<>>
    /\ dictzipRuns = <<>>
    /\ resDir.exists
    /\ dictFile.exists /\ ~dictFile.closed
    /\ Len(dictFile.data) = dictMark
    /\ ~merge_syns => idxFile.exists /\ Len(idxFile.data) = Len(texts)

\* A session overflowed after a resource was saved and a block indexed.
C3_Witness ==
  /\ error = OverflowMessage
  /\ resDir.files # {}
  /\ Len(texts) >= 2

\* The index record expected for word-form j of the i-th text entry.
expectedIdx(i, j) ==
  [word |-> texts[i].words[j], offset |-> offsetOf(i),
   length |-> Len(blockOf(texts[i]))]

\* An index record as (word, decoded offset, decoded length).
decoded(r) ==
  [word |-> r.word, offset |-> r.offset.value, length |-> r.length.value]

\* C4: after a session that ends without error the .idx file holds one
\* record per non-resource entry in split mode and one per word-form in
\* merged mode, every record's (offset, length) slices .dict to the block
\* of the entry its word belongs to, and at each entry dictMark is the
\* number of bytes written to .dict so far.
C4_RecordsSliceDict ==
  /\ Len(dictFile.data) = dictMark
  /\ dictMark = offsetOf(Len(texts) + 1)
  /\ pc = "done" =>
       /\ Len(idxFile.data) = Cardinality(indexedForms)
       /\ \A k \in DOMAIN idxFile.data :
             LET r == decoded(idxFile.data[k])
             IN /\ Cardinality({n \in DOMAIN idxFile.data :
                                  decoded(idxFile.data[n]) = r})
                     = Cardinality({f \in indexedForms :
                                      expectedIdx(f[1], f[2]) = r})
                /\ \E f \in indexedForms :
                      /\ expectedIdx(f[1], f[2]) = r
                      /\ slice(idxFile.data[k]) = blockOf(texts[f[1]])

\* A merged session finished with records of several entries, one of them
\* with two word-forms, at different offsets.
C4_Witness ==
  /\ pc = "done"
  /\ merge_syns
  /\ Len(texts) >= 2
  /\ Len(idxFile.data) > Len(texts)
  /\ \E k \in DOMAIN idxFile.data : idxFile.data[k].offset.value > 0

C6_SynRecords ==
  (pc = "done" /\ ~merge_syns) =>
    /\ Len(synFile.data) = Cardinality(altForms)
    /\ IsSortedByWord(synFile.data)
    /\ \A k \in DOMAIN synFile.data :
          LET r == synFile.data[k]
          IN /\ r.index.value + 1 \in DOMAIN idxFile.data
             /\ Cardinality({n \in DOMAIN synFile.data : synFile.data[n] = r})
                  = Cardinality({f \in altForms :
                        /\ texts[f[1]].words[f[2]] = r.word
                        /\ f[1] - 1 = r.index.value})
             /\ \E f \in altForms :
                   /\ texts[f[1]].words[f[2]] = r.word
                   /\ f[1] - 1 = r.index.value
                   /\ idxFile.data[r.index.value + 1].word = texts[f[1]].words[1]

\* A split session finished that began with a resource entry and whose
\* synonym records were reordered by the sort.
C6_Witness ==
  /\ pc = "done"
  /\ ~merge_syns
  /\ accepted # <<>>
  /\ accepted[1].isData
  /\ Len(synFile.data) >= 2
  /\ synFile.data[1].index.value > synFile.data[2].index.value

\* C7: a .syn file exists only when synonyms are not merged and a
\* non-resource entry had an alternate word-form, and a finished session
\* of that kind has one; in merged mode no synonym record is appended, the
\* header carries no synwordcount and the compressor is not run on .syn.
C7_SynFileIff ==
  /\ synFile.exists => ~merge_syns /\ altForms # {}
  /\ (pc = "done" /\ ~merge_syns /\ altForms # {}) => synFile.exists
  /\ merge_syns =>
       /\ altIndexList = <<>>
       /\ \A k \in DOMAIN ifoFile.keys : ifoFile.keys[k] # "synwordcount"
       /\ \A k \in DOMAIN dictzipRuns : dictzipRuns[k] # "syn"

\* A split session finished with textual entries, none of which had an
\* alternate word-form, and a compressor run.
C7_Witness ==
  /\ pc = "done"
  /\ ~merge_syns
  /\ texts # <<>>
  /\ altForms = {}
  /\ dictzipRuns # <<>>

\* C8 as claimed: a stream of zero entries completes without error in
\* each write mode and leaves an empty .dict, an .idx file that exists
\* with size 0, a header with wordcount=0 and idxfilesize=0, and no
\* resource directory.
C8_EmptyStream ==
  (ended /\ accepted = <<>>) =>
    /\ pc = "done"
    /\ error = ""
    /\ dictFile.exists /\ dictFile.data = <<>>
    /\ idxFile.exists /\ idxFile.data = <<>>
    /\ ifoFile.exists
    /\ ifoFile.wordcount = 0
    /\ ifoFile.idxfilesize = 0
    /\ ~resDir.exists

\* C9 as claimed: a stream of resource entries only leaves, in each write
\* mode, no index and no synonym record and a resource directory that
\* holds files and is kept after the session ends.
C9_OnlyResources ==
  (ended /\ accepted # <<>> /\ texts = <<>>) =>
    /\ pc = "done"
    /\ error = ""
    /\ idxFile.data = <<>>
    /\ synFile.data = <<>>
    /\ ifoFile.exists
    /\ resDir.exists
    /\ resDir.files # {}

\* The stream of C10: two textual entries with the same single headword
\* and different definitions, written in uniform plain-text mode.
SameHeadwordTwice ==
  /\ sametypesequence = "m"
  /\ Len(accepted) = 2
  /\ Len(texts) = 2
  /\ texts[1].words = <<b_a>>
  /\ texts[2].words = <<b_a>>
  /\ texts[1].defi # texts[2].defi

\* C10 as claimed: the stream above gives two index records at two
\* distinct dict-block offsets and a header with wordcount=1.
C10_Wordcount1 ==
  (pc = "done" /\ SameHeadwordTwice) =>
    /\ Len(idxFile.data) = 2
    /\ idxFile.data[1].offset.value # idxFile.data[2].offset.value
    /\ ifoFile.wordcount = 1

\* C10 as amended: the stream above gives two index records under the
\* shared headword, one at offset 0 and one at the byte length of the first
\* entry's block (distinct unless the first definition is empty), each
\* slicing .dict to its entry's block, and a header with wordcount=2.
C10_Wordcount2 ==
  (pc = "done" /\ SameHeadwordTwice) =>
    /\ Len(idxFile.data) = 2
    /\ idxFile.data[1].word = b_a
    /\ idxFile.data[2].word = b_a
    /\ {idxFile.data[1].offset.value, idxFile.data[2].offset.value}
         = {0, Len(blockOf(texts[1]))}
    /\ {slice(idxFile.data[1]), slice(idxFile.data[2])}
         = {blockOf(texts[1]), blockOf(texts[2])}
    /\ texts[1].defi # <<>> =>
         idxFile.data[1].offset.value # idxFile.data[2].offset.value
    /\ ifoFile.wordcount = 2

\* A merged session finished on the stream above, the first definition
\* not empty.
C10_Witness ==
  /\ pc = "done"
  /\ merge_syns
  /\ SameHeadwordTwice
  /\ texts[1].defi # <<>>

\* Whether the header written carries this key.
ifoHas(key) == \E k \in DOMAIN ifoFile.keys : ifoFile.keys[k] = key

\* C11: the header written at the end of a session contains
\* idxoffsetbits=64 if and only if large_file is on, contains
\* sametypesequence=<tag> if and only if one of the two uniform-format
\* procedures ran (with the tag it was given), and contains synwordcount if
\* and only if the number of synonym records is greater than zero (its
\* value then being that number).
C11_ConditionalHeaderKeys ==
  ifoFile.exists =>
    /\ ifoHas("idxoffsetbits") <=> large_file
    /\ ifoHas("idxoffsetbits") => ifoFile.idxoffsetbits = 64
    /\ ifoHas("sametypesequence")
         <=> proc \in {"writeCompact", "writeCompactMergeSyns"}
    /\ ifoHas("sametypesequence")
         => ifoFile.sametypesequence = sametypesequence /\ sametypesequence # ""
    /\ ifoHas("synwordcount") <=> Len(synFile.data) > 0
    /\ ifoHas("synwordcount")
         => /\ ifoFile.synwordcount = Len(synFile.data)
            /\ ifoFile.synwordcount = Cardinality(altForms)

\* A header was written with all three conditional keys.
C11_Witness ==
  /\ ifoFile.exists
  /\ ifoHas("idxoffsetbits")
  /\ ifoHas("sametypesequence")
  /\ ifoHas("synwordcount")

\* A header was written after a general procedure with none of them.
C11_NoneOfThem ==
  /\ ifoFile.exists
  /\ texts # <<>>
  /\ ~ifoHas("idxoffsetbits")
  /\ ~ifoHas("sametypesequence")
  /\ ~ifoHas("synwordcount")

\* The value of the key column of an entry.
sqKeyOf(entry) == headwordSortKey(entry.l_word)

\* a holds every item of b as often as b does, and nothing else.
SameItems(a, b) ==
  /\ Len(a) = Len(b)
  /\ \A k \in DOMAIN b :
       Cardinality({m \in DOMAIN a : a[m] = b[k]})
         = Cardinality({m \in DOMAIN b : b[m] = b[k]})

AscendingKeys(out) ==
  \A k, m \in DOMAIN out : k < m => BytesLeq(sqKeyOf(out[k]), sqKeyOf(out[m]))

DescendingKeys(out) ==
  \A k, m \in DOMAIN out : k < m => BytesLeq(sqKeyOf(out[m]), sqKeyOf(out[k]))

\* C12, as stated: the first call of sort on an instance, made after the
\* sort key is set, succeeds and leaves the list sorted; every later call
\* of sort fails and leaves order, length and contents as they were.
C12_SortAtMostOnce ==
  [][sq_last' = "sort" =>
       IF ~sq_sortCalled
       THEN sq_sqliteSortKey # <<>> => sq_error' = "" /\ sq_sorted'
       ELSE /\ sq_error' # ""
            /\ UNCHANGED << sq_orderBy, sq_len, sq_rows >>]_vars

\* C12, amended: on a list created on a fresh store and not closed, a call
\* of sort made after the sort key is set, while the list is not sorted,
\* succeeds, builds the index and leaves the list sorted in the direction
\* asked for; on any list, a call of sort made while the list is in the
\* sorted state fails with NotImplementedError and leaves order, direction,
\* length and contents as they were.
C12_SortOnceWhenFresh ==
  [][sq_last' = "sort" =>
       /\ (sq_create /\ sq_con /\ sq_sqliteSortKey # <<>> /\ ~sq_sorted)
            => /\ sq_error' = ""
               /\ sq_sorted'
               /\ sq_reverse' = (sq_orderBy'[Len(sq_orderBy')] = "DESC")
               /\ sq_master'.type = "index"
       /\ sq_sorted
            => /\ sq_error' = "NotImplementedError"
               /\ UNCHANGED << sq_orderBy, sq_sorted, sq_reverse, sq_len,
                               sq_rows, sq_master >>]_vars

\* A second call of sort was rejected on a fresh list holding rows.
C12_Witness ==
  /\ sq_create
  /\ sq_con
  /\ sq_last = "sort"
  /\ sq_error = "NotImplementedError"
  /\ sq_master.type = "index"
  /\ Len(sq_rows) >= 2

\* C13: an append made after sort has put the list in the sorted state is
\* rejected with an error and leaves length and contents as they were.
C13_AppendAfterSortRejected ==
  [][(sq_last' = "append" /\ sq_sortCalled /\ sq_sorted /\ sq_con)
       => /\ sq_error' # ""
          /\ UNCHANGED << sq_len, sq_rows >>]_vars

\* C14, as stated (of a list whose sort key is set): len equals the number
\* of items appended since creation or the last deleteAll, and every
\* forward iteration, whatever calls came before it, yields each of these
\* items once, in insertion order before sort, ascending by key after
\* sort(), descending after sort(reverse=True).
C14_IterationAlways ==
  /\ sq_len = Len(sq_appended)
  /\ (sq_last = "iter" /\ sq_sqliteSortKey # <<>>)
       => /\ sq_error = ""
          /\ SameItems(sq_out, sq_appended)
          /\ ~sq_sortCalled => sq_out = sq_appended
          /\ (sq_sortCalled /\ ~sq_reverse) => AscendingKeys(sq_out)
          /\ (sq_sortCalled /\ sq_reverse) => DescendingKeys(sq_out)

\* C14, amended: len equals the number of items appended through the
\* instance since its creation or its last deleteAll made while open; on a
\* list created on a fresh store, with its sort key set and not closed, a
\* forward iteration yields each of these items once, in insertion order
\* while the list is not sorted, ascending by key after sort(), descending
\* after sort(reverse=True); on a closed list iteration raises Error and
\* yields nothing.
C14_IterationWhileOpen ==
  /\ sq_len = Len(sq_appended)
  /\ (sq_last = "iter" /\ sq_create /\ sq_con /\ sq_sqliteSortKey # <<>>)
       => /\ sq_error = ""
          /\ SameItems(sq_out, sq_appended)
          /\ ~sq_sorted => sq_out = sq_appended
          /\ (sq_sorted /\ ~sq_reverse) => AscendingKeys(sq_out)
          /\ (sq_sorted /\ sq_reverse) => DescendingKeys(sq_out)
  /\ (sq_last = "iter" /\ ~sq_con)
       => sq_error = "Error" /\ sq_out = <<>>

\* A sorted fresh list of three items, two of them of one key, appended
\* out of key order, was iterated in descending order.
C14_Witness ==
  /\ sq_create
  /\ sq_last = "iter"
  /\ sq_error = ""
  /\ sq_sorted /\ sq_reverse
  /\ Len(sq_out) = 3
  /\ sq_out # sq_appended
  /\ \E k, m \in DOMAIN sq_out :
       k # m /\ sq_out[k] # sq_out[m] /\ sqKeyOf(sq_out[k]) = sqKeyOf(sq_out[m])

\* C15: once the instance is released its connection is closed and its
\* backing file is gone, unless persist was set, and then the file is kept.
C15_ReleaseRemovesFile ==
  sq_state = "released" =>
    /\ ~sq_con
    /\ sq_file <=> sq_persist

\* A list that was appended to and sorted was released with persist set.
C15_Witness ==
  /\ sq_state = "released"
  /\ sq_persist
  /\ sq_file
  /\ sq_len > 0
  /\ sq_master.type = "index"
  /\ sq_sortCalled

\* C19: on a store opened with create=False whose "sortkey" definition does
\* not parse, setSortKey logs the error and leaves the list unsorted, and
\* the call of sort that follows is accepted and builds the index; when
\* the definition parses, setSortKey leaves the list sorted, its order the
\* columns of the index.
C19_MalformedIndexRebuilt ==
  [][/\ (sq_last' = "setSortKey" /\ sq_error' = "" /\ ~sq_create
           /\ sq_master # NoObject)
          => IF find(sq_master.sql, "(", 1) = 0
             THEN Len(sq_log') = Len(sq_log) + 1 /\ ~sq_sorted'
             ELSE sq_sorted' /\ sq_orderBy' = <<"headword">>
     /\ (sq_last' = "sort" /\ ~sq_create /\ sq_con /\ sq_log # <<>>
           /\ ~sq_sorted)
          => /\ sq_error' = ""
             /\ sq_sorted'
             /\ sq_master'.type = "index"]_vars

\* The positions of ops at which one of these steps was taken.
opsAt(steps) == {k \in DOMAIN ops : ops[k] \in steps}

\* C17: in a session that ran to its end the compressor was, when
\* compression is configured, run on .dict, and then on .syn exactly when
\* synonyms are not merged and a .syn file exists; it runs only after the
\* write procedure has closed .dict, .idx and .syn and written the header;
\* when compression is not configured it is never run.
C17_CompressorAfterWrite ==
  /\ pc = "done" =>
       dictzipRuns = IF dictzip
                     THEN <<"dict">> \o (IF ~merge_syns /\ synFile.exists
                                         THEN <<"syn">> ELSE <<>>)
                     ELSE <<>>
  /\ Len(dictzipRuns) = Cardinality(opsAt({"dictzip_dict", "dictzip_syn"}))
  /\ dictzipRuns # <<>> =>
       /\ pc = "done"
       /\ dictFile.exists /\ dictFile.closed
       /\ idxFile.exists /\ idxFile.closed
       /\ synFile.closed
       /\ ifoFile.exists
       /\ \A z \in opsAt({"dictzip_dict", "dictzip_syn"}) :
            /\ \E k \in opsAt({"write_ifo"}) : k < z
            /\ \E k \in opsAt({"close_dict"}) : k < z
            /\ \A k \in opsAt({"close_dict", "close_idx", "write_idx",
                               "write_syn", "write_ifo"}) : k < z
  /\ ~dictzip => dictzipRuns = <<>>

\* The compressor was run on .dict and then on .syn.
C17_Witness ==
  /\ pc = "done"
  /\ dictzipRuns = <<"dict", "syn">>
  /\ Len(synFile.data) >= 2

\* The resource entries received so far.
IsData(e) == e.isData

datas == SelectSeq(accepted, IsData)

\* The dict blocks of these entries, one after the other.
RECURSIVE blocksOf(_)
blocksOf(ts) ==
  IF ts = <<>> THEN <<>>
  ELSE blocksOf(SubSeq(ts, 1, Len(ts) - 1)) \o blockOf(ts[Len(ts)])

\* The number of word-forms of the first n non-resource entries.
RECURSIVE formsOf(_)
formsOf(n) == IF n = 0 THEN 0 ELSE formsOf(n - 1) + Len(texts[n].words)

\* C18: whenever the writer is suspended, every entry received so far is
\* processed in full: .dict holds the blocks of the non-resource entries in
\* their arrival order and nothing else, each of them has its index record
\* written (split) or its index items appended (merged), its synonym items
\* appended, and every resource received is saved.
C18_OneEntryAtATime ==
  pc = "waiting" =>
    /\ dictFile.data = blocksOf(texts)
    /\ dictMark = Len(dictFile.data)
    /\ entryIndex = Len(texts) - 1
    /\ resDir.files = {datas[k].words[1] : k \in DOMAIN datas}
    /\ IF merge_syns
       THEN /\ Len(idxBlockList) = formsOf(Len(texts))
            /\ altIndexList = <<>>
            /\ \A k \in DOMAIN texts :
                 /\ idxBlockList[formsOf(k - 1) + 1][1] = texts[k].words[1]
                 /\ idxBlockList[formsOf(k - 1) + 1][2].offset.value = offsetOf(k)
       ELSE /\ Len(idxFile.data) = Len(texts)
            /\ Len(altIndexList) = formsOf(Len(texts)) - Len(texts)
            /\ \A k \in DOMAIN texts :
                 /\ idxFile.data[k].word = texts[k].words[1]
                 /\ idxFile.data[k].offset.value = offsetOf(k)

\* The writer is suspended after a resource received between two
\* non-resource entries of different blocks.
C18_Witness ==
  /\ pc = "waiting"
  /\ Len(accepted) = 3
  /\ ~accepted[1].isData /\ accepted[2].isData /\ ~accepted[3].isData
  /\ blockOf(accepted[1]) # blockOf(accepted[3])
  /\ Len(accepted[1].words) = 2

\* The procedure the two axes of the configuration call for.
procedureFor(merge, sts) ==
  CASE merge /\ sts # "" -> "writeCompactMergeSyns"
    [] merge /\ sts = "" -> "writeGeneralMergeSyns"
    [] ~merge /\ sts # "" -> "writeCompact"
    [] OTHER -> "writeGeneral"

\* C20: when write starts, the procedure is chosen from merge_syns and
\* sametypesequence as they stand (merged + tag: writeCompactMergeSyns,
\* merged + no tag: writeGeneralMergeSyns, split + tag: writeCompact, split
\* + no tag: writeGeneral); from then on neither the choice nor the
\* configuration changes, and every non-resource entry received is handled
\* the way of the chosen procedure: a bare block with a tag, a tagged and
\* terminated block without, an index record written when split, index
\* items appended when merged.
C20_OneProcedure ==
  [][/\ pc = "opened" => proc' = procedureFor(merge_syns, sametypesequence)
     /\ pc # "opened" => proc' = proc
     /\ config' = config
     /\ (accepted' # accepted /\ ~accepted'[Len(accepted')].isData) =>
          LET e == accepted'[Len(accepted')]
          IN /\ dictFile'.data = dictFile.data
                  \o (IF proc \in {"writeCompact", "writeCompactMergeSyns"}
                      THEN utf8(e.defi)
                      ELSE asciiTag(e.fmt) \o utf8(e.defi) \o <<0>>)
             /\ IF proc \in {"writeCompactMergeSyns", "writeGeneralMergeSyns"}
                THEN /\ idxFile' = idxFile
                     /\ Len(idxBlockList') = Len(idxBlockList) + Len(e.words)
                ELSE /\ idxBlockList' = idxBlockList
                     /\ Len(idxFile'.data) = Len(idxFile.data) + 1]_vars

\* A session of the merged general procedure ended after two entries.
C20_Witness ==
  /\ pc = "done"
  /\ proc = "writeGeneralMergeSyns"
  /\ merge_syns /\ sametypesequence = ""
  /\ Len(texts) >= 2

\* The synonym items the first n non-resource entries had appended.
RECURSIVE appendedAlt(_)
appendedAlt(n) ==
  IF n = 0 THEN <<>>
  ELSE appendedAlt(n - 1)
         \o [j \in 1..(Len(texts[n].words) - 1) |->
               << texts[n].words[j + 1], n - 1 >>]

\* The index items the first n non-resource entries had appended.
RECURSIVE appendedIdx(_)
appendedIdx(n) ==
  IF n = 0 THEN <<>>
  ELSE appendedIdx(n - 1)
         \o [j \in 1..Len(texts[n].words) |->
               << texts[n].words[j],
                  [offset |-> [width |-> IF large_file THEN 8 ELSE 4,
                               value |-> offsetOf(n)],
                   length |-> [width |-> 4,
                               value |-> Len(blockOf(texts[n]))]] >>]

\* The .syn and .idx records a session with the lists in memory writes for
\* the entries received.
memSyn ==
  LET sorted == IF merge_syns THEN <<>>
                ELSE sortList(appendedAlt(Len(texts)))
  IN [k \in DOMAIN sorted |->
        [word |-> sorted[k][1],
         index |-> [width |-> 4, value |-> sorted[k][2]]]]

memIdx ==
  LET sorted == IF merge_syns THEN sortList(appendedIdx(Len(texts)))
                ELSE [n \in DOMAIN texts |-> appendedIdx(n)[formsOf(n - 1) + 1]]
  IN [k \in DOMAIN sorted |->
        [word |-> sorted[k][1], offset |-> sorted[k][2].offset,
         length |-> sorted[k][2].length]]

DistinctWords(records) ==
  \A k, m \in DOMAIN records : records[k].word = records[m].word => k = m

SameWords(a, b) ==
  /\ Len(a) = Len(b)
  /\ \A k \in DOMAIN a : a[k].word = b[k].word

resourceNames == {e.words[1] : e \in DataEntries}

\* C21: in each of the four procedures, receiving a resource entry adds its
\* file to the resource directory and changes nothing else: dictMark, the
\* entry index, the word count, the .dict and .idx files, the index and
\* synonym lists stay as they were and the writer goes on waiting; no
\* index record and no list item ever carries a resource's name.
C21_ResourceFrame ==
  [][/\ (accepted' # accepted /\ accepted'[Len(accepted')].isData) =>
          /\ resDir'.exists
          /\ resDir'.files
               = resDir.files \cup {accepted'[Len(accepted')].words[1]}
          /\ UNCHANGED << dictMark, entryIndex, wordCount, dictFile,
                          idxFile, synFile, ifoFile, idxBlockList,
                          altIndexList, pc, proc, error >>
     /\ \A k \in DOMAIN idxFile'.data :
          idxFile'.data[k].word \notin resourceNames
     /\ \A k \in DOMAIN synFile'.data :
          synFile'.data[k].word \notin resourceNames
     /\ \A k \in DOMAIN idxBlockList' :
          idxBlockList'[k][1] \notin resourceNames
     /\ \A k \in DOMAIN altIndexList' :
          altIndexList'[k][1] \notin resourceNames]_vars

\* A merged procedure has received a resource entry after a non-resource
\* entry of two word-forms and a block that is not empty.
C21_Witness ==
  /\ pc = "waiting"
  /\ merge_syns
  /\ Len(accepted) = 2
  /\ ~accepted[1].isData /\ accepted[2].isData
  /\ dictMark > 0
  /\ Len(idxBlockList) = 2
  /\ resDir.files # {}

\* The files this session has saved in the resource directory.
savedFiles == {datas[k].words[1] : k \in DOMAIN datas}

\* C22, as stated: the resource directory is there while the session
\* runs; after a session that ended without error it exists if and only if
\* a file is in it, it was removed exactly when the session wrote nothing
\* to it, and the removal came after the header was written and before the
\* compressor was run.
C22_RemovedIffNothingWritten ==
  /\ pc = "waiting" => resDir.exists
  /\ pc = "done" =>
       /\ resDir.exists <=> resDir.files # {}
       /\ ~resDir.exists <=> savedFiles = {}
       /\ opsAt({"rmdir_res"}) # {} <=> savedFiles = {}
       /\ \A d \in opsAt({"rmdir_res"}) :
            /\ \E k \in opsAt({"write_ifo"}) : k < d
            /\ \A z \in opsAt({"dictzip_dict", "dictzip_syn"}) : d < z

\* C22, amended: the resource directory is there while the session runs;
\* after a session that ended without error it exists if and only if a
\* file is in it; it was removed, once, exactly when it held no file after
\* the stream ended, be it a file of this session or one that was there
\* before; when no file was there before, that is exactly when the session
\* wrote nothing to it; the removal came after the header was written and
\* before the compressor was run.
C22_RemovedIffEmpty ==
  /\ pc = "waiting" => resDir.exists
  /\ pc = "done" =>
       /\ resDir.exists <=> resDir.files # {}
       /\ savedFiles \subseteq resDir.files
       /\ Cardinality(opsAt({"rmdir_res"})) = IF resDir.files = {} THEN 1 ELSE 0
       /\ resDir.files \subseteq savedFiles =>
            (~resDir.exists <=> savedFiles = {})
       /\ \A d \in opsAt({"rmdir_res"}) :
            /\ \E k \in opsAt({"write_ifo"}) : k < d
            /\ \A z \in opsAt({"dictzip_dict", "dictzip_syn"}) : d < z

\* A session that wrote no resource ended with the compressor run, and the
\* empty resource directory was removed.
C22_Witness ==
  /\ pc = "done"
  /\ texts # <<>>
  /\ savedFiles = {}
  /\ ~resDir.exists
  /\ opsAt({"rmdir_res"}) # {}
  /\ dictzipRuns = <<"dict", "syn">>

\* A session that wrote no resource ended, and the resource directory is
\* kept for the file that was in it before.
C22_KeptForOldFile ==
  /\ pc = "done"
  /\ savedFiles = {}
  /\ resDir.exists

\* The tag C23 says a session is opened with.
resolvedTag(option, stat) ==
  CASE option \in {"h", "m", "x"} -> option
    [] option = NoneTag -> NoneTag
    [] option = "" /\ stat # NoStat /\ stat.m > 97 -> "m"
    [] option = "" /\ stat # NoStat /\ stat.m <= 97 /\ stat.h > 50 -> "h"
    [] OTHER -> ""

\* C23: the tag is settled when the session is opened and stays as settled;
\* a tag given is kept; for an empty tag a sample of 100 entries is asked
\* of the glossary, and the tag becomes "m" only if the share of plain text
\* is above 0.97, else "h" only if the share of html is above 0.5, else it
\* stays empty; for None no sample is asked for; with an empty tag or None
\* write delegates to a general procedure.
C23_TagResolvedAtOpen ==
  [][/\ pc = "constructed" =>
          /\ pc' = "opened"
          /\ sametypesequence' = resolvedTag(sametypesequence, glos.stat)
          /\ glos'.sampled = IF sametypesequence = "" THEN 100 ELSE 0
          /\ glos'.stat = glos.stat
     /\ pc # "constructed" =>
          /\ sametypesequence' = sametypesequence
          /\ glos' = glos
     /\ (pc = "opened" /\ sametypesequence \in {"", NoneTag}) =>
          proc' \in {"writeGeneral", "writeGeneralMergeSyns"}
     /\ (pc = "opened" /\ sametypesequence \in {"h", "m", "x"}) =>
          proc' \in {"writeCompact", "writeCompactMergeSyns"}]_vars

\* A session opened with an empty tag was given "h" for an html share of
\* 0.51, and write delegated to a uniform-format procedure.
C23_Witness ==
  /\ pc = "waiting"
  /\ glos.sampled = 100
  /\ glos.stat.m = 49
  /\ glos.stat.h = 51
  /\ sametypesequence = "h"
  /\ proc = "writeCompact"

\* A session opened with an empty tag stays without one at a plain-text
\* share of exactly 0.97.
C23_AtThreshold ==
  /\ pc = "opened"
  /\ glos.sampled = 100
  /\ glos.stat.m = 97
  /\ sametypesequence = ""

\* A session opened with None runs a general procedure, and no sample was
\* asked for.
C23_NoneGeneral ==
  /\ pc = "waiting"
  /\ sametypesequence = NoneTag
  /\ glos.sampled = 0
  /\ glos.stat.m = 100
  /\ proc = "writeGeneral"

\* C24: in a session that ended without error the header's wordcount is
\* the number of records of the .idx file: the number of non-resource
\* entries received in a split procedure, the number of word-forms of all
\* non-resource entries in a merged procedure; entries of equal headword
\* are counted each.
C24_WordcountIsRecords ==
  pc = "done" =>
    /\ ifoHas("wordcount")
    /\ ifoFile.wordcount = Len(idxFile.data)
    /\ ifoFile.wordcount = Cardinality(indexedForms)
    /\ ifoFile.wordcount = IF merge_syns THEN formsOf(Len(texts))
                           ELSE Len(texts)

\* A merged session ended whose index has a word twice, and a split session
\* would count fewer records.
C24_Witness ==
  /\ pc = "done"
  /\ merge_syns
  /\ ifoFile.wordcount > Len(texts)
  /\ \E k, m \in DOMAIN idxFile.data :
       k # m /\ idxFile.data[k].word = idxFile.data[m].word

\* C25: in a session that ended without error the .idx file was closed
\* before the header was written, and the header's idxfilesize is the
\* byte length of all index records written: for each record the length of
\* its word, 1, the offset width (8 with large_file, else 4) and 4.
C25_IdxFileSize ==
  pc = "done" =>
    /\ idxFile.exists /\ idxFile.closed
    /\ ifoHas("idxfilesize")
    /\ ifoFile.idxfilesize
         = SumSeq([k \in DOMAIN idxFile.data |->
                     Len(idxFile.data[k].word) + 1
                       + (IF large_file THEN 8 ELSE 4) + 4])
    /\ Len(idxFile.data) = Cardinality(indexedForms)
    /\ \A h \in opsAt({"write_ifo"}) :
         \E k \in opsAt({"close_idx", "write_idx"}) : k < h

\* A split session with 64-bit offsets ended with several records, among
\* them words of different lengths.
C25_Witness ==
  /\ pc = "done"
  /\ ~merge_syns
  /\ large_file
  /\ Len(idxFile.data) >= 2
  /\ \E k, m \in DOMAIN idxFile.data :
       Len(idxFile.data[k].word) # Len(idxFile.data[m].word)
  /\ ifoFile.idxfilesize > 0

====
